---- MODULE Spec2Model ----
(***************************************************************************)
(* A model of exports-cleanup: the export analyzer (extractExports,        *)
(* extractImports, resolveImportPath, analyzeExports) and the CLI action   *)
(* that prints the report and sets the exit code.                          *)
(*                                                                         *)
(* Text is modelled line by line.  A line is a record that carries what    *)
(* the analyzer's regular expressions can see of it: its shape (which      *)
(* regex matches it), the captured groups (keyword, name, the items of a   *)
(* brace list, the module specifier) and its length in characters.         *)
(* A path is the sequence of its segments under the scanned root:          *)
(* "a/index.ts" is <<"/a", "/index", ".ts">>.                              *)
(***************************************************************************)
EXTENDS Naturals, Sequences, FiniteSets

VARIABLES
    fsys,             \* the filesystem snapshot: path -> [status, content]
    includeTypes,     \* options.includeTypes
    pc,               \* position inside analyzeExports
    i,                \* index of the running for-loop
    allExports,       \* ExportedItem[]
    allImports,       \* ImportReference[]
    filteredExports,  \* ExportedItem[] after the type filter
    fileAnalysisMap,  \* Map<string, FileAnalysis>, in insertion order
    result,           \* the ScanResult returned
    rq,               \* resolveImportPath's arguments and snapshot
    rres,             \* resolveImportPath's return value
    cli               \* the CLI action: options, position, exit code

vars == <<fsys, includeTypes, pc, i, allExports, allImports, filteredExports,
          fileAnalysisMap, result, rq, rres, cli>>

analyzerVars == <<fsys, includeTypes, pc, i, allExports, allImports,
                  filteredExports, fileAnalysisMap, result>>

resolverVars == <<rq, rres>>

----------------------------------------------------------------------------
(* Bounds *)

\* The number of statement lines in the whole scanned tree.
MaxStmts == 3

\* The largest unusedExports a scan hands to the CLI action.
MaxUnused == 2

\* The number of lines of a text handed to extractExports on its own.
MaxLines == 3

----------------------------------------------------------------------------
(* Paths *)

SourceExts == {".ts", ".tsx", ".js", ".jsx", ".mjs"}

\* const extensions = ['.ts', '.tsx', '.js', '.jsx', '.mjs', '/index.ts', ...]
extensions ==
    << <<".ts">>, <<".tsx">>, <<".js">>, <<".jsx">>, <<".mjs">>,
       <<"/index", ".ts">>, <<"/index", ".tsx">>, <<"/index", ".js">> >>

\* path.replace(/\.(ts|tsx|js|jsx|mjs)$/, '')
StripExt(p) ==
    IF Len(p) > 0 /\ p[Len(p)] \in SourceExts
    THEN SubSeq(p, 1, Len(p) - 1)
    ELSE p

\* dirname(fromFile): everything before the last path component
dirname(p) ==
    LET comps == {k \in 1..Len(p) : p[k] \notin SourceExts}
        last  == CHOOSE k \in comps : \A j \in comps : j <= k
    IN  IF comps = {} THEN <<>> ELSE SubSeq(p, 1, last - 1)

\* resolve(dir, importPath) for a specifier "./x" or "/x" under the root
resolve(dir, importPath) ==
    IF importPath.prefix = "/" THEN importPath.segs ELSE dir \o importPath.segs

FileA     == <<"/a", ".ts">>
FileIndex == <<"/a", "/index", ".ts">>
FileB     == <<"/b", ".ts">>

\* The order in which fast-glob lists the files of the tree.
ListingOrder == <<FileA, FileIndex, FileB>>

----------------------------------------------------------------------------
(* Lines of source text *)

NoSpec == [prefix |-> "", segs |-> <<>>]
DotA   == [prefix |-> ".", segs |-> <<"/a">>]
DotAJs == [prefix |-> ".", segs |-> <<"/a", ".js">>]

\* export function foo() {}
LineFunctionFoo ==
    [shape |-> "export", kw |-> "function", name |-> "foo",
     items |-> <<>>, from |-> NoSpec, len |-> 24]
\* export interface bar {}
LineInterfaceBar ==
    [shape |-> "export", kw |-> "interface", name |-> "bar",
     items |-> <<>>, from |-> NoSpec, len |-> 23]
\* export default function baz() {}
LineDefaultBaz ==
    [shape |-> "export", kw |-> "default function", name |-> "baz",
     items |-> <<>>, from |-> NoSpec, len |-> 32]
\* export { foo, bar as baz }
LineExportList ==
    [shape |-> "exportList", kw |-> "", name |-> "",
     items |-> << <<"foo">>, <<"bar", "as", "baz">> >>, from |-> NoSpec,
     len |-> 26]
\* import { foo, bar, baz as q } from './a'
LineImportNamed ==
    [shape |-> "importNamed", kw |-> "", name |-> "",
     items |-> << <<"foo">>, <<"bar">>, <<"baz", "as", "q">> >>,
     from |-> DotA, len |-> 38]
\* import x from './a.js'
LineImportDefault ==
    [shape |-> "importDefault", kw |-> "", name |-> "x",
     items |-> <<>>, from |-> DotAJs, len |-> 22]
\* import * as ns from './a'
LineImportNamespace ==
    [shape |-> "importNamespace", kw |-> "", name |-> "ns",
     items |-> <<>>, from |-> DotA, len |-> 25]
\* import d, { foo } from './a'
LineImportCombined ==
    [shape |-> "importDefault", kw |-> "", name |-> "d",
     items |-> << <<"foo">> >>, from |-> DotA, len |-> 28]

\* const bar = 1;
LineConstBar ==
    [shape |-> "other", kw |-> "", name |-> "",
     items |-> <<>>, from |-> NoSpec, len |-> 14]
\* an empty line
LineBlank ==
    [shape |-> "other", kw |-> "", name |-> "",
     items |-> <<>>, from |-> NoSpec, len |-> 0]

Lines ==
    {LineFunctionFoo, LineInterfaceBar, LineDefaultBaz, LineExportList,
     LineImportNamed, LineImportDefault, LineImportNamespace,
     LineImportCombined}

\* Texts of at most n lines.
Texts(n) == UNION {[1..k -> Lines] : k \in 0..n}

----------------------------------------------------------------------------
(* The filesystem snapshot *)

\* readFileSync(p) returns: p is a regular file the process can read
readFileSync(fs, p) == p \in DOMAIN fs /\ fs[p].status = "readable"

\* await glob(DEFAULT_INCLUDE, ...): the files of the snapshot, as listed
glob(fs) ==
    LET Listed(p) == p \in DOMAIN fs
    IN  SelectSeq(ListingOrder, Listed)

\* The snapshot with every file whose read fails removed.
WithoutUnreadable(fs) ==
    [p \in {q \in DOMAIN fs : fs[q].status = "readable"} |-> fs[p]]

----------------------------------------------------------------------------
(* estimateSize, extractExports *)

\* Math.round(code.length * 0.6)
estimateSize(codeLength) == (codeLength * 6 + 5) \div 10

\* The offset of line k's first character: lines are joined by "\n".
LineStart(content, k) ==
    LET s[j \in 0..(k - 1)] ==
            IF j = 0 THEN 0 ELSE s[j - 1] + content[j].len + 1
    IN  s[k - 1]

\* content.length
ContentLength(content) ==
    IF content = <<>> THEN 0
    ELSE LineStart(content, Len(content)) + content[Len(content)].len

\* Variant: the block always runs to the end of the text.
BlockEndAtEof(content, k) == ContentLength(content)

\* content.indexOf('\n\n', index), or content.length when there is none:
\* the end of the first line at or after k that an empty line follows.
BlockEnd(content, k) ==
    LET ends == {j \in k..Len(content) :
                    /\ j + 2 <= Len(content)
                    /\ content[j + 1].len = 0}
        first == CHOOSE j \in ends : \A j2 \in ends : j <= j2
    IN  IF ends = {} THEN ContentLength(content)
        ELSE LineStart(content, first) + content[first].len

\* getLineNumber(match.index) for a match at the start of line k
getLineNumber(content, k) == k

patterns ==
    << [kws |-> {"function"},       type |-> "function"],
       [kws |-> {"async function"}, type |-> "function"],
       [kws |-> {"class"},          type |-> "class"],
       [kws |-> {"const"},          type |-> "const"],
       [kws |-> {"let"},            type |-> "variable"],
       [kws |-> {"var"},            type |-> "variable"],
       [kws |-> {"type"},           type |-> "type"],
       [kws |-> {"interface"},      type |-> "interface"],
       [kws |-> {"enum"},           type |-> "enum"],
       [kws |-> {"default function", "default class"}, type |-> "default"],
       [kws |-> {"default"},        type |-> "default"] >>

\* regex.exec finds a match on this line
RegexMatches(p, line) == line.shape = "export" /\ line.kw \in p.kws

\* The item pushed for a declaration matched on line k.
DeclaredItem(p, content, filePath, k) ==
    [name          |-> IF content[k].name = "" THEN "default"
                       ELSE content[k].name,
     type          |-> p.type,
     file          |-> filePath,
     line          |-> getLineNumber(content, k),
     isDefault     |-> (p.type = "default"),
     estimatedSize |-> estimateSize(BlockEnd(content, k)
                                      - LineStart(content, k))]

\* The while loop of one pattern over the text.
PatternExports(p, content, filePath) ==
    LET m[k \in 0..Len(content)] ==
            IF k = 0 THEN <<>>
            ELSE IF RegexMatches(p, content[k])
                 THEN Append(m[k - 1], DeclaredItem(p, content, filePath, k))
                 ELSE m[k - 1]
    IN  m[Len(content)]

\* for (const { regex, type } of patterns) ...
DeclaredExports(content, filePath) ==
    LET r[n \in 0..Len(patterns)] ==
            IF n = 0 THEN <<>>
            ELSE r[n - 1] \o PatternExports(patterns[n], content, filePath)
    IN  r[Len(patterns)]

\* n.trim().split(/\s+as\s+/): the identifiers around each "as"
SplitAs(item) == [k \in 1..((Len(item) + 1) \div 2) |-> item[2 * k - 1]]

\* parts[parts.length - 1].trim()
ExportedName(item) == SplitAs(item)[Len(SplitAs(item))]

\* name && !exports.some(e => e.name === name)
ListNameIsNew(exports, name) ==
    name # "" /\ ~(\E k \in 1..Len(exports) : exports[k].name = name)

\* for (const name of names) ... exports.push(...)
ListedExports(exports, content, filePath, k) ==
    LET names == [j \in 1..Len(content[k].items) |->
                      ExportedName(content[k].items[j])]
        a[j \in 0..Len(names)] ==
            IF j = 0 THEN exports
            ELSE IF ListNameIsNew(a[j - 1], names[j])
                 THEN Append(a[j - 1],
                        [name |-> names[j], type |-> "const",
                         file |-> filePath,
                         line |-> getLineNumber(content, k),
                         isDefault |-> FALSE, estimatedSize |-> 100])
                 ELSE a[j - 1]
    IN  a[Len(names)]

extractExports(content, filePath) ==
    LET e[k \in 0..Len(content)] ==
            IF k = 0 THEN DeclaredExports(content, filePath)
            ELSE IF content[k].shape = "exportList"
                 THEN ListedExports(e[k - 1], content, filePath, k)
                 ELSE e[k - 1]
    IN  e[Len(content)]

----------------------------------------------------------------------------
(* resolveImportPath, extractImports *)

\* Variant: the probe asks whether the path exists, not whether it reads.
probeExists(fs, withExt) == withExt \in DOMAIN fs

\* try { readFileSync(withExt); return withExt } catch { continue }
probe(fs, withExt) == readFileSync(fs, withExt)

\* Variant: the joined path itself is probed before the suffixed ones.
resolveLiteralFirst(fs, importPath, fromFile) ==
    LET resolved == resolve(dirname(fromFile), importPath)
        hits     == {k \in 1..Len(extensions) :
                        probe(fs, resolved \o extensions[k])}
        first    == CHOOSE k \in hits : \A j \in hits : k <= j
    IN  IF probe(fs, resolved) \/ hits = {} THEN resolved
        ELSE resolved \o extensions[first]

resolveImportPath(fs, importPath, fromFile) ==
    LET resolved == resolve(dirname(fromFile), importPath)
        hits     == {k \in 1..Len(extensions) :
                        probe(fs, resolved \o extensions[k])}
        first    == CHOOSE k \in hits : \A j \in hits : k <= j
    IN  IF hits = {} THEN resolved ELSE resolved \o extensions[first]

\* fromPath.startsWith('.') || fromPath.startsWith('/')
IsLocal(fromPath) == fromPath.prefix \in {".", "/"}

\* parts[0].trim()
ImportedName(item) == SplitAs(item)[1]

\* namedImportRegex matches `import {...} from '...'` only
NamedRegexMatches(line) == line.shape = "importNamed"

\* defaultImportRegex matches `import x from` and `import x, {...} from`
DefaultRegexMatches(line) == line.shape = "importDefault"

\* The references one named import statement pushes.
NamedReferences(fs, line, filePath, k) ==
    LET names == [j \in 1..Len(line.items) |-> ImportedName(line.items[j])]
        resolvedPath == resolveImportPath(fs, line.from, filePath)
        a[j \in 0..Len(names)] ==
            IF j = 0 THEN <<>>
            ELSE IF names[j] # ""
                 THEN Append(a[j - 1],
                        [name |-> names[j], fromFile |-> resolvedPath,
                         toFile |-> filePath, line |-> k,
                         isDefault |-> FALSE])
                 ELSE a[j - 1]
    IN  IF IsLocal(line.from) THEN a[Len(names)] ELSE <<>>

\* The reference one default import statement pushes.
DefaultReferences(fs, line, filePath, k) ==
    IF IsLocal(line.from)
    THEN << [name |-> "default",
             fromFile |-> resolveImportPath(fs, line.from, filePath),
             toFile |-> filePath, line |-> k, isDefault |-> TRUE] >>
    ELSE <<>>

extractImports(fs, content, filePath) ==
    LET named[k \in 0..Len(content)] ==
            IF k = 0 THEN <<>>
            ELSE IF NamedRegexMatches(content[k])
                 THEN named[k - 1]
                        \o NamedReferences(fs, content[k], filePath, k)
                 ELSE named[k - 1]
        all[k \in 0..Len(content)] ==
            IF k = 0 THEN named[Len(content)]
            ELSE IF DefaultRegexMatches(content[k])
                 THEN all[k - 1]
                        \o DefaultReferences(fs, content[k], filePath, k)
                 ELSE all[k - 1]
    IN  all[Len(content)]

----------------------------------------------------------------------------
(* analyzeExports: the steps of its loops *)

\* The body of `for (const file of files)`: what one file adds.
ScanFile(fs, acc, file) ==
    IF readFileSync(fs, file)
    THEN [exports |-> acc.exports \o extractExports(fs[file].content, file),
          imports |-> acc.imports
                        \o extractImports(fs, fs[file].content, file)]
    ELSE acc

\* Variant: only type aliases count as type exports.
IsTypeAliasOnly(e) == e.type = "type"

\* e.type !== 'type' && e.type !== 'interface'
IsTypeExport(e) == e.type = "type" \/ e.type = "interface"

KeepsExport(e) == ~IsTypeExport(e)

FilterExports(incl, exports) ==
    IF incl THEN exports ELSE SelectSeq(exports, KeepsExport)

\* Variant: the paths are compared as they are, extensions included.
isSameFileExact(imp, exp) == imp.fromFile = exp.file

isSameFile(imp, exp) ==
    \/ imp.fromFile = exp.file
    \/ StripExt(imp.fromFile) = StripExt(exp.file)

\* Variant: the binding is matched by name for default exports too.
IsUsageByName(imp, exp) == isSameFile(imp, exp) /\ imp.name = exp.name

\* The predicate of allImports.filter(...)
IsUsage(imp, exp) ==
    /\ isSameFile(imp, exp)
    /\ IF exp.isDefault THEN imp.isDefault ELSE imp.name = exp.name

\* [...new Set(seq)]: distinct elements in order of first occurrence
Distinct(seq) ==
    LET d[k \in 0..Len(seq)] ==
            IF k = 0 THEN <<>>
            ELSE IF \E j \in 1..Len(d[k - 1]) : d[k - 1][j] = seq[k]
                 THEN d[k - 1]
                 ELSE Append(d[k - 1], seq[k])
    IN  d[Len(seq)]

ExportAnalysis(exp, imports) ==
    LET Uses(imp) == IsUsage(imp, exp)
        usages == SelectSeq(imports, Uses)
        usedIn == Distinct([k \in 1..Len(usages) |-> usages[k].toFile])
    IN  [export |-> exp, usageCount |-> Len(usedIn), usedIn |-> usedIn,
         isUnused |-> (Len(usedIn) = 0)]

\* fileAnalysisMap after the analysis of one export is added to it
AddAnalysis(map, analysis) ==
    LET file  == analysis.export.file
        has   == \E k \in 1..Len(map) : map[k].file = file
        map1  == IF has THEN map
                 ELSE Append(map, [file |-> file, exports |-> <<>>,
                                   unusedCount |-> 0, usedCount |-> 0])
        at    == CHOOSE k \in 1..Len(map1) : map1[k].file = file
    IN  [map1 EXCEPT
           ![at] = [file        |-> file,
                    exports     |-> Append(map1[at].exports, analysis),
                    unusedCount |-> IF analysis.isUnused
                                    THEN map1[at].unusedCount + 1
                                    ELSE map1[at].unusedCount,
                    usedCount   |-> IF analysis.isUnused
                                    THEN map1[at].usedCount
                                    ELSE map1[at].usedCount + 1]]

HasExports(f) == Len(f.exports) > 0

\* Variant: a sort that puts a file report before the earlier ones of equal
\* unusedCount.
SortTiesReversed(seq) ==
    LET Insert(sorted, x) ==
            LET n == Cardinality({k \in 1..Len(sorted) :
                                    sorted[k].unusedCount > x.unusedCount})
            IN  SubSeq(sorted, 1, n) \o <<x>>
                  \o SubSeq(sorted, n + 1, Len(sorted))
        s[k \in 0..Len(seq)] ==
            IF k = 0 THEN <<>> ELSE Insert(s[k - 1], seq[k])
    IN  s[Len(seq)]

\* .sort((a, b) => b.unusedCount - a.unusedCount): a stable sort
SortByUnused(seq) ==
    LET Insert(sorted, x) ==
            LET n == Cardinality({k \in 1..Len(sorted) :
                                    sorted[k].unusedCount >= x.unusedCount})
            IN  SubSeq(sorted, 1, n) \o <<x>>
                  \o SubSeq(sorted, n + 1, Len(sorted))
        s[k \in 0..Len(seq)] ==
            IF k = 0 THEN <<>> ELSE Insert(s[k - 1], seq[k])
    IN  s[Len(seq)]

\* Variant: the sizes of all exports are summed, used ones included.
TotalSize(exports) ==
    LET s[k \in 0..Len(exports)] ==
            IF k = 0 THEN 0
            ELSE s[k - 1] + exports[k].export.estimatedSize
    IN  s[Len(exports)]

\* fa.exports.filter(e => e.isUnused).reduce((sum, e) => sum + size, 0)
UnusedSize(exports) ==
    LET s[k \in 0..Len(exports)] ==
            IF k = 0 THEN 0
            ELSE IF exports[k].isUnused
                 THEN s[k - 1] + exports[k].export.estimatedSize
                 ELSE s[k - 1]
    IN  s[Len(exports)]

\* Lines 318-341: the report built from the map
Totals(map) ==
    LET fileAnalyses == SortByUnused(SelectSeq(map, HasExports))
        t[k \in 0..Len(fileAnalyses)] ==
            IF k = 0
            THEN [totalExports |-> 0, unusedExports |-> 0,
                  estimatedSavings |-> 0]
            ELSE [totalExports |->
                      t[k - 1].totalExports + Len(fileAnalyses[k].exports),
                  unusedExports |->
                      t[k - 1].unusedExports + fileAnalyses[k].unusedCount,
                  estimatedSavings |->
                      t[k - 1].estimatedSavings
                        + UnusedSize(fileAnalyses[k].exports)]
        sum == t[Len(fileAnalyses)]
    IN  [files            |-> fileAnalyses,
         totalExports     |-> sum.totalExports,
         unusedExports    |-> sum.unusedExports,
         usedExports      |-> sum.totalExports - sum.unusedExports,
         estimatedSavings |-> sum.estimatedSavings]

\* analyzeExports as a function of the snapshot and the option
analyzeExports(fs, incl) ==
    LET listed == glob(fs)
        scan[k \in 0..Len(listed)] ==
            IF k = 0 THEN [exports |-> <<>>, imports |-> <<>>]
            ELSE ScanFile(fs, scan[k - 1], listed[k])
        scanned  == scan[Len(listed)]
        filtered == FilterExports(incl, scanned.exports)
        map[k \in 0..Len(filtered)] ==
            IF k = 0 THEN <<>>
            ELSE AddAnalysis(map[k - 1],
                             ExportAnalysis(filtered[k], scanned.imports))
    IN  Totals(map[Len(filtered)])

----------------------------------------------------------------------------
(* The analyzer as a state machine *)

NoResult ==
    [files |-> <<>>, totalExports |-> 0, unusedExports |-> 0,
     usedExports |-> 0, estimatedSavings |-> 0]

NoRequest == [importPath |-> NoSpec, fromFile |-> <<>>, fs |-> <<>>]

CliIdle ==
    [pc |-> "idle", json |-> FALSE, compact |-> FALSE, showUsed |-> FALSE,
     unusedExports |-> 0, printed |-> "", exitCode |-> 0]

FileEntry(content, readable) ==
    [status  |-> IF readable THEN "readable" ELSE "unreadable",
     content |-> content]

\* A file whose read fails shows the scan none of its text: its content is
\* left empty.  The files whose read may fail are the two a specifier of the
\* catalogue can resolve to; nothing refers to b.ts, so a failed read of it
\* is the same to the scan as an empty b.ts.
Init ==
    /\ \E c1 \in Texts(MaxStmts) :
       \E c2 \in Texts(MaxStmts - Len(c1)) :
       \E c3 \in Texts(MaxStmts - Len(c1) - Len(c2)) :
       \E r1 \in {TRUE} \cup {c1 # <<>>},
          r2 \in {TRUE} \cup {c2 # <<>>} :
          fsys = [p \in {FileA, FileIndex, FileB} |->
                    IF p = FileA THEN FileEntry(c1, r1)
                    ELSE IF p = FileIndex THEN FileEntry(c2, r2)
                    ELSE FileEntry(c3, TRUE)]
    /\ includeTypes \in BOOLEAN
    /\ pc = "scan"
    /\ i = 1
    /\ allExports = <<>>
    /\ allImports = <<>>
    /\ filteredExports = <<>>
    /\ fileAnalysisMap = <<>>
    /\ result = NoResult
    /\ rq = NoRequest
    /\ rres = <<>>
    /\ cli = CliIdle

\* const files = await glob(...)
files == glob(fsys)

\* try { readFileSync; extractExports; extractImports; push; push }
ReadFile ==
    /\ pc = "scan"
    /\ i <= Len(files)
    /\ readFileSync(fsys, files[i])
    /\ LET acc == ScanFile(fsys, [exports |-> allExports,
                                  imports |-> allImports], files[i])
       IN  /\ allExports' = acc.exports
           /\ allImports' = acc.imports
    /\ i' = i + 1
    /\ UNCHANGED <<fsys, includeTypes, pc, filteredExports, fileAnalysisMap,
                   result, rq, rres, cli>>

\* catch { continue }
ReadFails ==
    /\ pc = "scan"
    /\ i <= Len(files)
    /\ ~readFileSync(fsys, files[i])
    /\ i' = i + 1
    /\ UNCHANGED <<fsys, includeTypes, pc, allExports, allImports,
                   filteredExports, fileAnalysisMap, result, rq, rres, cli>>

\* const filteredExports = includeTypes ? allExports : allExports.filter(...)
FilterTypes ==
    /\ pc = "scan"
    /\ i > Len(files)
    /\ filteredExports' = FilterExports(includeTypes, allExports)
    /\ pc' = "match"
    /\ i' = 1
    /\ UNCHANGED <<fsys, includeTypes, allExports, allImports,
                   fileAnalysisMap, result, rq, rres, cli>>

\* The body of `for (const exp of filteredExports)`
AnalyzeExport ==
    /\ pc = "match"
    /\ i <= Len(filteredExports)
    /\ fileAnalysisMap' =
          AddAnalysis(fileAnalysisMap,
                      ExportAnalysis(filteredExports[i], allImports))
    /\ i' = i + 1
    /\ UNCHANGED <<fsys, includeTypes, pc, allExports, allImports,
                   filteredExports, result, rq, rres, cli>>

\* Calculate totals; return
ComputeTotals ==
    /\ pc = "match"
    /\ i > Len(filteredExports)
    /\ result' = Totals(fileAnalysisMap)
    /\ pc' = "done"
    /\ UNCHANGED <<fsys, includeTypes, i, allExports, allImports,
                   filteredExports, fileAnalysisMap, rq, rres, cli>>

Next ==
    \/ ReadFile
    \/ ReadFails
    \/ FilterTypes
    \/ AnalyzeExport
    \/ ComputeTotals

Spec == Init /\ [][Next]_vars

----------------------------------------------------------------------------
(* resolveImportPath on its own: one call on a drawn snapshot *)

\* The paths a specifier may stand for: the joined path and its suffixed forms.
Candidates(resolved) ==
    {resolved} \cup {resolved \o extensions[k] : k \in 1..Len(extensions)}

InitResolve ==
    /\ \E importPath \in {DotA, DotAJs} :
       \E present \in SUBSET Candidates(resolve(dirname(FileB), importPath)) :
       \E unreadable \in SUBSET present :
          rq = [importPath |-> importPath,
                fromFile   |-> FileB,
                fs         |-> [p \in present |->
                                  FileEntry(<<>>, p \notin unreadable)]]
    /\ rres = <<>>
    /\ pc = "resolve"
    /\ fsys = <<>>
    /\ includeTypes = FALSE
    /\ i = 1
    /\ allExports = <<>>
    /\ allImports = <<>>
    /\ filteredExports = <<>>
    /\ fileAnalysisMap = <<>>
    /\ result = NoResult
    /\ cli = CliIdle

Resolve ==
    /\ pc = "resolve"
    /\ rres' = resolveImportPath(rq.fs, rq.importPath, rq.fromFile)
    /\ pc' = "resolved"
    /\ UNCHANGED <<fsys, includeTypes, i, allExports, allImports,
                   filteredExports, fileAnalysisMap, result, rq, cli>>

NextResolve == Resolve

SpecResolve == InitResolve /\ [][NextResolve]_vars

----------------------------------------------------------------------------
(* extractExports on its own: one call on a drawn text *)

\* The lines of the texts drawn for the call: the exports of the catalogue,
\* a statement that exports nothing and the empty line.
ExtractLines ==
    {LineFunctionFoo, LineInterfaceBar, LineDefaultBaz, LineExportList,
     LineConstBar, LineBlank}

InitExtract ==
    /\ \E content \in UNION {[1..k -> ExtractLines] : k \in 0..MaxLines} :
          fsys = [p \in {FileA} |-> FileEntry(content, TRUE)]
    /\ includeTypes = FALSE
    /\ pc = "extract"
    /\ i = 1
    /\ allExports = <<>>
    /\ allImports = <<>>
    /\ filteredExports = <<>>
    /\ fileAnalysisMap = <<>>
    /\ result = NoResult
    /\ rq = NoRequest
    /\ rres = <<>>
    /\ cli = CliIdle

\* const exports = extractExports(content, file)
Extract ==
    /\ pc = "extract"
    /\ allExports' = extractExports(fsys[FileA].content, FileA)
    /\ pc' = "extracted"
    /\ UNCHANGED <<fsys, includeTypes, i, allImports, filteredExports,
                   fileAnalysisMap, result, rq, rres, cli>>

NextExtract == Extract

SpecExtract == InitExtract /\ [][NextExtract]_vars

----------------------------------------------------------------------------
(* The CLI action *)

InitCli ==
    /\ \E json \in BOOLEAN, compact \in BOOLEAN, showUsed \in BOOLEAN :
          cli = [pc |-> "scan", json |-> json, compact |-> compact,
                 showUsed |-> showUsed, unusedExports |-> 0,
                 printed |-> "", exitCode |-> 0]
    /\ includeTypes \in BOOLEAN
    /\ pc = "cli"
    /\ fsys = <<>>
    /\ i = 1
    /\ allExports = <<>>
    /\ allImports = <<>>
    /\ filteredExports = <<>>
    /\ fileAnalysisMap = <<>>
    /\ result = NoResult
    /\ rq = NoRequest
    /\ rres = <<>>

\* result = await analyzeExports(...); spinner.stop()
CliScan ==
    /\ cli.pc = "scan"
    /\ \E unused \in 0..MaxUnused :
          cli' = [cli EXCEPT !.pc = "output", !.unusedExports = unused]
    /\ UNCHANGED <<analyzerVars, resolverVars>>

\* analyzeExports throws: spinner.fail, the outer catch, process.exit(1)
CliScanFails ==
    /\ cli.pc = "scan"
    /\ cli' = [cli EXCEPT !.pc = "exited", !.printed = "error",
                          !.exitCode = 1]
    /\ UNCHANGED <<analyzerVars, resolverVars>>

\* if (options.json) { printJsonResult(...); return; }
CliPrintJson ==
    /\ cli.pc = "output"
    /\ cli.json
    /\ cli' = [cli EXCEPT !.pc = "exited", !.printed = "json"]
    /\ UNCHANGED <<analyzerVars, resolverVars>>

\* if (options.compact) printCompactResult(...)
CliPrintCompact ==
    /\ cli.pc = "output"
    /\ ~cli.json
    /\ cli.compact
    /\ cli' = [cli EXCEPT !.pc = "support", !.printed = "compact"]
    /\ UNCHANGED <<analyzerVars, resolverVars>>

\* else printScanResult(result, projectPath, options.showUsed)
CliPrintScan ==
    /\ cli.pc = "output"
    /\ ~cli.json
    /\ ~cli.compact
    /\ cli' = [cli EXCEPT !.pc = "support", !.printed = "scan"]
    /\ UNCHANGED <<analyzerVars, resolverVars>>

\* Variant: the action ends without looking at unusedExports.
CliExitIgnoresUnused ==
    /\ cli.pc = "support"
    /\ cli' = [cli EXCEPT !.pc = "exited"]
    /\ UNCHANGED <<analyzerVars, resolverVars>>

\* printSupportMessage(); if (result.unusedExports > 0) process.exit(1)
CliExit ==
    /\ cli.pc = "support"
    /\ cli' = [cli EXCEPT !.pc = "exited",
                          !.exitCode = IF cli.unusedExports > 0 THEN 1 ELSE 0]
    /\ UNCHANGED <<analyzerVars, resolverVars>>

NextCli ==
    \/ CliScan
    \/ CliScanFails
    \/ CliPrintJson
    \/ CliPrintCompact
    \/ CliPrintScan
    \/ CliExit

SpecCli == InitCli /\ [][NextCli]_vars

----------------------------------------------------------------------------
(* Properties *)

\* The elements of a sequence.
Range(seq) == {seq[k] : k \in 1..Len(seq)}

\* The places <<f, k>> of the export analyses of a report.
Places(res) ==
    UNION {{<<f, k>> : k \in 1..Len(res.files[f].exports)} :
             f \in 1..Len(res.files)}

At(res, pl) == res.files[pl[1]].exports[pl[2]]

RECURSIVE SizeSum(_, _)
SizeSum(res, places) ==
    IF places = {} THEN 0
    ELSE LET pl == CHOOSE x \in places : TRUE
         IN  At(res, pl).export.estimatedSize + SizeSum(res, places \ {pl})

RECURSIVE CountSum(_, _)
CountSum(seq, field) ==
    IF seq = <<>> THEN 0
    ELSE (IF field = "exports" THEN Len(Head(seq).exports)
          ELSE IF field = "unused" THEN Head(seq).unusedCount
          ELSE Head(seq).usedCount) + CountSum(Tail(seq), field)

\* The files of the snapshot that the scan could read.
ReadFiles == {p \in DOMAIN fsys : fsys[p].status = "readable"}

\* The lines of file f, by number.
LineNos(f) == 1..Len(fsys[f].content)

\* Module M is what the specifier of a statement in file f stands for.
Denotes(from, f, M) ==
    StripExt(resolveImportPath(fsys, from, f)) = StripExt(M)

\* The import references that the claim C1 pairs with an export.
MatchingRefs(exp) ==
    {m \in 1..Len(allImports) :
        /\ StripExt(allImports[m].fromFile) = StripExt(exp.file)
        /\ \/ exp.isDefault /\ allImports[m].isDefault
           \/ ~exp.isDefault /\ allImports[m].name = exp.name}

\* C1: every export kept after the type filter is reported, used exactly when
\* some import reference has the same path up to a trailing source extension
\* and a matching binding; usedIn is the set of the importing files of those
\* references, without repetition, and usageCount is its size.
C1_UsageMatching ==
    pc = "done" =>
      /\ \A k \in 1..Len(filteredExports) :
            \E pl \in Places(result) : At(result, pl).export = filteredExports[k]
      /\ \A pl \in Places(result) :
            LET an        == At(result, pl)
                importers == {allImports[m].toFile : m \in MatchingRefs(an.export)}
            IN  /\ an.isUnused = (MatchingRefs(an.export) = {})
                /\ Range(an.usedIn) = importers
                /\ Len(an.usedIn) = Cardinality(importers)
                /\ an.usageCount = Cardinality(importers)

\* An export that two files import.
C1_Witness ==
    /\ pc = "done"
    /\ \E pl \in Places(result) :
          /\ ~At(result, pl).isUnused
          /\ At(result, pl).usageCount = 2

\* C2: a namespace import `import * as ns from <relative specifier>` that
\* resolves to module M marks every export of M used, with the importing file
\* among its usedIn.
C2_NamespaceMarksUsed ==
    pc = "done" =>
      \A f \in ReadFiles : \A k \in LineNos(f) :
        LET line == fsys[f].content[k]
        IN  (line.shape = "importNamespace" /\ IsLocal(line.from)) =>
              \A pl \in Places(result) :
                 Denotes(line.from, f, At(result, pl).export.file) =>
                    /\ ~At(result, pl).isUnused
                    /\ f \in Range(At(result, pl).usedIn)

\* The files holding a default import (alone or before a brace list) whose
\* specifier stands for module M.
DefaultImporters(M) ==
    {f \in ReadFiles :
        \E k \in LineNos(f) :
           /\ fsys[f].content[k].shape = "importDefault"
           /\ IsLocal(fsys[f].content[k].from)
           /\ Denotes(fsys[f].content[k].from, f, M)}

\* C3: a default export of M is reported used exactly when some file holds a
\* default import whose resolved path denotes M, whatever the names on either
\* side; its usedIn holds those files only, so a named import never marks it.
C3_DefaultByFlag ==
    pc = "done" =>
      \A pl \in Places(result) :
         At(result, pl).export.isDefault =>
            /\ At(result, pl).isUnused
                 = (DefaultImporters(At(result, pl).export.file) = {})
            /\ Range(At(result, pl).usedIn)
                 = DefaultImporters(At(result, pl).export.file)

\* A default export named baz reported used through `import x from './a.js'`.
C3_Witness ==
    /\ pc = "done"
    /\ \E pl \in Places(result) :
          /\ At(result, pl).export.isDefault
          /\ At(result, pl).export.name = "baz"
          /\ ~At(result, pl).isUnused
          /\ \E f \in ReadFiles : \E k \in LineNos(f) :
                /\ fsys[f].content[k] = LineImportDefault
                /\ f \in Range(At(result, pl).usedIn)

\* C4: the exports extracted from one file hold no two entries with
\* isDefault = false and the same name.
C4_NoDuplicateNamedExports ==
    \A j \in 1..Len(allExports) : \A k \in 1..Len(allExports) :
       (/\ j # k
        /\ allExports[j].file = allExports[k].file
        /\ ~allExports[j].isDefault
        /\ ~allExports[k].isDefault) =>
          allExports[j].name # allExports[k].name

\* The extracted exports that are not of kind type or interface.
ValueExports ==
    {k \in 1..Len(allExports) :
        allExports[k].type \notin {"type", "interface"}}

\* C5: with includeTypes = false no export of kind type or interface is in
\* the report or in its totals, imported or not, and a file with only such
\* exports has no file report.
C5_TypesLeftOut ==
    (pc = "done" /\ ~includeTypes) =>
      /\ \A pl \in Places(result) :
            At(result, pl).export.type \notin {"type", "interface"}
      /\ result.totalExports = Cardinality(ValueExports)
      /\ result.unusedExports + result.usedExports = Cardinality(ValueExports)
      /\ result.estimatedSavings
           = SizeSum(result, {pl \in Places(result) : At(result, pl).isUnused})
      /\ \A f \in 1..Len(result.files) :
            \E k \in ValueExports : allExports[k].file = result.files[f].file

\* An interface that another file imports by name, left out with its file.
C5_Witness ==
    /\ pc = "done"
    /\ ~includeTypes
    /\ \E k \in 1..Len(allExports) :
          /\ allExports[k].type = "interface"
          /\ MatchingRefs(allExports[k]) # {}
          /\ \A f \in 1..Len(result.files) :
                result.files[f].file # allExports[k].file

\* C6: every file report has an export and unusedCount + usedCount = number
\* of exports; the totals are the sums over the file reports; usedExports =
\* totalExports - unusedExports; estimatedSavings is the sum of estimatedSize
\* over exactly the exports with isUnused = true.
C6_ReportArithmetic ==
    pc = "done" =>
      /\ \A f \in 1..Len(result.files) :
            /\ Len(result.files[f].exports) >= 1
            /\ result.files[f].unusedCount + result.files[f].usedCount
                 = Len(result.files[f].exports)
            /\ result.files[f].unusedCount
                 = Cardinality({k \in 1..Len(result.files[f].exports) :
                                   result.files[f].exports[k].isUnused})
      /\ result.totalExports = CountSum(result.files, "exports")
      /\ result.unusedExports = CountSum(result.files, "unused")
      /\ result.usedExports = CountSum(result.files, "used")
      /\ result.usedExports + result.unusedExports = result.totalExports
      /\ result.estimatedSavings
           = SizeSum(result, {pl \in Places(result) : At(result, pl).isUnused})

\* A report with used and unused exports in it.
C6_Witness ==
    /\ pc = "done"
    /\ result.unusedExports > 0
    /\ result.usedExports > 0
    /\ result.estimatedSavings > 0

\* C7 as claimed: whenever a scan completes with unusedExports > 0 the
\* process ends with exit code 1, whatever --json, --compact and --show-used.
C7_ExitCodeAnyOutput ==
    (cli.pc = "exited" /\ cli.printed # "error" /\ cli.unusedExports > 0) =>
       cli.exitCode = 1

\* C7 as amended: whenever a scan completes with unusedExports > 0 and --json
\* is not given the process ends with exit code 1, whatever --compact and
\* --show-used; with --json the action returns after printing the report and
\* the process ends with exit code 0.
C7_ExitCodeUnlessJson ==
    (cli.pc = "exited" /\ cli.printed # "error") =>
       /\ (~cli.json /\ cli.unusedExports > 0) => cli.exitCode = 1
       /\ cli.json => (cli.printed = "json" /\ cli.exitCode = 0)

\* A compact report with --show-used and unused exports has ended with 1.
C7_Witness ==
    /\ cli.pc = "exited"
    /\ cli.printed = "compact"
    /\ cli.showUsed
    /\ cli.unusedExports > 0
    /\ cli.exitCode = 1

\* C8: a file whose read fails adds no export and no import, and when some
\* read has failed the report is the one of the same tree with those files
\* absent.
C8_UnreadableAsAbsent ==
    /\ \A k \in 1..Len(allExports) : allExports[k].file \in ReadFiles
    /\ \A k \in 1..Len(allImports) : allImports[k].toFile \in ReadFiles
    /\ (pc = "done" /\ ReadFiles # DOMAIN fsys) =>
          result = analyzeExports(WithoutUnreadable(fsys), includeTypes)

\* a.ts fails to read, so './a' is resolved to a/index.ts, whose export is
\* reported used.
C8_Witness ==
    /\ pc = "done"
    /\ fsys[FileA].status = "unreadable"
    /\ \E pl \in Places(result) :
          /\ At(result, pl).export.file = FileIndex
          /\ ~At(result, pl).isUnused

\* The order of the probes as the claim C9 has it: the joined path first.
ClaimedOrder(resolved) ==
    <<resolved>> \o [k \in 1..Len(extensions) |-> resolved \o extensions[k]]

RqResolved == resolve(dirname(rq.fromFile), rq.importPath)

\* C9 as claimed: the first existing candidate among the joined path and its
\* suffixed forms, in that order, is returned, and the joined path when none
\* exists.  A candidate exists when it is a file that can be read, which is
\* how the code tells.
C9_FirstExistingLiteralFirst ==
    pc = "resolved" =>
      LET order == ClaimedOrder(RqResolved)
          found == {k \in 1..Len(order) : readFileSync(rq.fs, order[k])}
      IN  IF found = {} THEN rres = RqResolved
          ELSE \E k \in found :
                  /\ rres = order[k]
                  /\ \A j \in found : k <= j

\* C9 as amended: the first candidate that can be read among the joined path
\* suffixed with .ts, .tsx, .js, .jsx, .mjs, /index.ts, /index.tsx, /index.js,
\* in that order, is returned; the joined path itself is not probed and is
\* returned, whether it exists or not, when no suffixed candidate can be read.
C9_FirstReadableSuffix ==
    pc = "resolved" =>
      LET suffixes == << <<".ts">>, <<".tsx">>, <<".js">>, <<".jsx">>,
                         <<".mjs">>, <<"/index", ".ts">>,
                         <<"/index", ".tsx">>, <<"/index", ".js">> >>
          Reads(p) == p \in DOMAIN rq.fs /\ rq.fs[p].status = "readable"
      IN  \/ /\ \A k \in 1..8 : ~Reads(RqResolved \o suffixes[k])
             /\ rres = RqResolved
          \/ \E k \in 1..8 :
                /\ Reads(RqResolved \o suffixes[k])
                /\ \A j \in 1..(k - 1) : ~Reads(RqResolved \o suffixes[j])
                /\ rres = RqResolved \o suffixes[k]

\* The joined path is a readable file and so is a later candidate, which is
\* what the call returns.
C9_Witness ==
    /\ pc = "resolved"
    /\ readFileSync(rq.fs, RqResolved)
    /\ readFileSync(rq.fs, RqResolved \o <<".js">>)
    /\ ~readFileSync(rq.fs, RqResolved \o <<".ts">>)
    /\ ~readFileSync(rq.fs, RqResolved \o <<".tsx">>)
    /\ rres = RqResolved \o <<".js">>

\* C10: for an `export { ..., local as exported }` list in module M the
\* exports of M carry the exported names; a named import of M records the
\* name before `as`, so that `import { exported as q }` from M marks the
\* export of that name used, and an import of the local name does not.
C10_AliasesLineUp ==
    pc = "done" =>
      \A M \in ReadFiles : \A k \in LineNos(M) :
        fsys[M].content[k].shape = "exportList" =>
          \A n \in 1..Len(fsys[M].content[k].items) :
            LET item     == fsys[M].content[k].items[n]
                exported == item[Len(item)]
                local    == item[1]
            IN  /\ \E e \in Range(allExports) :
                      e.file = M /\ e.name = exported
                /\ local # exported =>
                      ~\E e \in Range(allExports) :
                          e.file = M /\ e.name = local /\ e.line = k
                /\ \A f \in ReadFiles : \A m \in LineNos(f) :
                      LET imp == fsys[f].content[m]
                      IN  (/\ imp.shape = "importNamed"
                           /\ IsLocal(imp.from)
                           /\ Denotes(imp.from, f, M)
                           /\ \E q \in 1..Len(imp.items) :
                                 imp.items[q][1] = exported) =>
                             \E pl \in Places(result) :
                                /\ At(result, pl).export.file = M
                                /\ At(result, pl).export.name = exported
                                /\ f \in Range(At(result, pl).usedIn)

\* The place of a file in the listing of the traversal.
ListingIndex(f) == CHOOSE k \in 1..Len(files) : files[k] = f

\* C11: the file reports are in order of non-increasing unusedCount, and two
\* file reports of equal unusedCount are in the order in which the traversal
\* listed their files.
C11_SortedStable ==
    pc = "done" =>
      \A f \in 1..Len(result.files) : \A g \in 1..Len(result.files) :
         f < g =>
            /\ result.files[f].unusedCount >= result.files[g].unusedCount
            /\ result.files[f].unusedCount = result.files[g].unusedCount =>
                  ListingIndex(result.files[f].file)
                    < ListingIndex(result.files[g].file)

\* Three file reports: the one listed first has no unused export and comes
\* last, the other two tie and keep the order of the listing.
C11_Witness ==
    /\ pc = "done"
    /\ Len(result.files) = 3
    /\ result.files[1].file = FileIndex
    /\ result.files[2].file = FileB
    /\ result.files[3].file = FileA
    /\ result.files[1].unusedCount = result.files[2].unusedCount
    /\ result.files[3].unusedCount < result.files[2].unusedCount

\* The last line of the block that starts on line k of the text: the first
\* line from k on that an empty line and then more text follow, or the last
\* line of the text.
BlockLast(content, k) ==
    LET stops == {m \in k..Len(content) :
                     /\ m + 2 <= Len(content)
                     /\ content[m + 1] = LineBlank}
    IN  IF stops = {} THEN Len(content)
        ELSE CHOOSE m \in stops : \A m2 \in stops : m <= m2

\* The number of characters of lines k..m with the newlines between them.
RECURSIVE Chars(_, _, _)
Chars(content, k, m) ==
    IF k > m THEN 0
    ELSE IF k = m THEN content[k].len
    ELSE content[k].len + 1 + Chars(content, k + 1, m)

\* r is 0.6 * n rounded to the nearest integer.
IsRounded(r, n) == 10 * r <= 6 * n + 5 /\ 6 * n <= 10 * r + 5

\* The entry's size is that of the block starting at its line.
SizedByBlock(content, e) ==
    IsRounded(e.estimatedSize,
              Chars(content, e.line, BlockLast(content, e.line)))

\* C12 as claimed: every symbol that extractExports returns, those of an
\* `export { ... }` list included, has estimatedSize equal to 0.6 times the
\* number of characters from its match to the next blank line or the end of
\* the text, rounded.
C12_SizeFromBlock ==
    pc = "extracted" =>
      \A k \in 1..Len(allExports) :
         SizedByBlock(fsys[FileA].content, allExports[k])

\* C12 as amended: a symbol of a declaration has estimatedSize equal to 0.6
\* times the number of characters from its match to the next blank line or
\* the end of the text, rounded; a symbol of an `export { ... }` list has
\* estimatedSize 100; every estimatedSize is >= 0.
C12_SizeByKind ==
    pc = "extracted" =>
      \A k \in 1..Len(allExports) :
         LET content == fsys[FileA].content
             e       == allExports[k]
         IN  /\ e.estimatedSize >= 0
             /\ IF content[e.line].shape = "exportList"
                THEN e.estimatedSize = 100
                ELSE SizedByBlock(content, e)

\* A declaration whose block ends at a blank line before the end of the
\* text, and a symbol of an export list after it.
C12_Witness ==
    /\ pc = "extracted"
    /\ \E k \in 1..Len(allExports) :
          /\ fsys[FileA].content[allExports[k].line].shape = "export"
          /\ BlockLast(fsys[FileA].content, allExports[k].line)
                < Len(fsys[FileA].content)
    /\ \E k \in 1..Len(allExports) :
          /\ fsys[FileA].content[allExports[k].line].shape = "exportList"
          /\ allExports[k].estimatedSize = 100

\* The import references pushed for line k of file f with the given flag.
RefsOfLine(f, k, isDefault) ==
    {m \in 1..Len(allImports) :
        /\ allImports[m].toFile = f
        /\ allImports[m].line = k
        /\ allImports[m].isDefault = isDefault}

\* C13: a combined import `import d, { a, b } from <relative specifier>`
\* yields one default reference to the module it resolves to and one named
\* reference per listed name, so that the module's named exports of those
\* names and its default export are reported used by the importing file.
C13_CombinedImport ==
    pc = "done" =>
      \A f \in ReadFiles : \A k \in LineNos(f) :
        LET line   == fsys[f].content[k]
            target == resolveImportPath(fsys, line.from, f)
            listed == {line.items[n][1] : n \in 1..Len(line.items)}
        IN  (/\ line.shape = "importDefault"
             /\ line.items # <<>>
             /\ IsLocal(line.from)) =>
               /\ Cardinality(RefsOfLine(f, k, TRUE)) = 1
               /\ \A m \in RefsOfLine(f, k, TRUE) :
                     allImports[m].fromFile = target
               /\ Cardinality(RefsOfLine(f, k, FALSE)) = Cardinality(listed)
               /\ \A name \in listed :
                     \E m \in RefsOfLine(f, k, FALSE) :
                        /\ allImports[m].name = name
                        /\ allImports[m].fromFile = target
               /\ \A pl \in Places(result) :
                     LET an == At(result, pl)
                     IN  (/\ StripExt(an.export.file) = StripExt(target)
                          /\ \/ an.export.isDefault
                             \/ an.export.name \in listed) =>
                            f \in Range(an.usedIn)

====
